---- MODULE Spec2Model ----
(***************************************************************************)
(* fealpy half-edge boundary domain (fealpy/mesh/HalfEdgeDomain.py):       *)
(* the vertex array, the six-column half-edge table, the fixed flags and   *)
(* the counts NV, NE, NS, under boundary_uniform_refine and               *)
(* boundary_adaptive_refine, in place and in functional mode, and under    *)
(* to_halfedgemesh (specification Spec); is_intersect (SpecIntersect);     *)
(* the loop of create_voronoi_1 (SpecClip); the table built by            *)
(* create_finite_voronoi (SpecFinite); the index map of voronoi_mesh       *)
(* (SpecMerge); boundary_adaptive_refine with an edgecenter argument       *)
(* (SpecGiven); and the growable array of fealpy/common/DynamicArray.py    *)
(* (SpecArray).                                                            *)
(*                                                                         *)
(* Arrays are functions over 0..n-1, as numpy indexes them.  A half-edge   *)
(* row is a record of the six columns; a coordinate is a dyadic rational   *)
(* <<numerator, denominator>> in lowest terms, on which the float average  *)
(* (a + b)/2 of the code is exact.                                         *)
(***************************************************************************)
EXTENDS Integers, Sequences, FiniteSets, TLC

\* Bounds of the model.
MaxNE == 16
MaxAdaptiveNE == 12
MaxMark == 2
MaxLevels == 2
MaxCopyNE == 8
MaxCoord == 1
MaxCapacity == 3
MaxInitCapacity == 2
MaxGenerators == 3
MaxNear == 2
MaxCenters == 2
MaxGivenNE == 10

VARIABLES
    vertices,   \* self.vertices : 0..NV-1 -> point
    halfedge,   \* self.halfedge : 0..NE-1 -> row
    fixed,      \* self.fixed    : 0..NV-1 -> BOOLEAN
    NV,         \* self.NV
    NE,         \* self.NE
    NS,         \* self.NS
    argv,       \* the caller's own vertex array (functional mode), <<>> if none
    argh,       \* the caller's own half-edge array (functional mode), <<>> if none
    ret,        \* what the last functional call returned, <<>> if none
    call,       \* the last call made: its name and arguments
    segs,       \* is_intersect: the arguments p0, p1, v0, v1, returnin
    isret,      \* is_intersect: how the call ended
    data,       \* DynamicArray: self.data, the identity of the backing array
    cells,      \* DynamicArray: the cells of the array self.data
    size,       \* DynamicArray: self.size
    capacity,   \* DynamicArray: self.capacity
    shape,      \* DynamicArray: self.shape
    view,       \* DynamicArray: the array last returned to the caller
    dacall,     \* DynamicArray: the last call made and how it ended
    clip,       \* create_voronoi_1: where the call is and its local arrays
    voronoi,    \* create_finite_voronoi: the diagram scipy computed
    finite      \* create_finite_voronoi: how the call ended and its table

domainVars == <<vertices, halfedge, fixed, NV, NE, NS, argv, argh, ret, call>>
segmentVars == <<segs, isret>>
arrayVars == <<data, cells, size, capacity, shape, view, dacall>>
finiteVars == <<voronoi, finite>>
vars == <<domainVars, segmentVars, arrayVars, clip, finiteVars>>

----------------------------------------------------------------------------
\* numpy helpers

\* len(a) of an array held as a function over 0..n-1
len(a) == Cardinality(DOMAIN a)

\* np.r_['0', a, b]: a new array, the rows of a followed by the rows of b
Concat(a, b) ==
    [i \in 0..(len(a) + len(b) - 1) |-> IF i < len(a) THEN a[i] ELSE b[i - len(a)]]

\* a[mask] index order: the indices of S in increasing order, as a sequence
RECURSIVE Ascending(_)
Ascending(S) ==
    IF S = {} THEN <<>>
    ELSE LET m == CHOOSE x \in S : \A y \in S : x <= y
         IN  <<m>> \o Ascending(S \ {m})

\* Mutant of Argsort: the order of the entries as they stand, unsorted.
ArgsortIdentity(s) == [k \in 1..Len(s) |-> k]

\* np.argsort(s), 1-based: position k holds the index of the k-th smallest entry
Argsort(s) ==
    [k \in 1..Len(s) |->
        CHOOSE j \in 1..Len(s) :
            Cardinality({i \in 1..Len(s) :
                s[i] < s[j] \/ (s[i] = s[j] /\ i < j)}) = k - 1]

\* position of x in the sequence s (x occurs once)
PosIn(s, x) == CHOOSE k \in 1..Len(s) : s[k] = x

RECURSIVE Pow2(_)
Pow2(n) == IF n = 0 THEN 1 ELSE 2 * Pow2(n - 1)

\* a dyadic rational in lowest terms
RECURSIVE Norm(_)
Norm(q) ==
    IF q[2] > 1 /\ q[1] % 2 = 0 THEN Norm(<<q[1] \div 2, q[2] \div 2>>) ELSE q

\* (a + b)/2 on one coordinate
Half(a, b) == Norm(<<a[1] * b[2] + b[1] * a[2], 2 * a[2] * b[2]>>)

\* (p + q)/2 on points of R^2
Mid(p, q) == <<Half(p[1], q[1]), Half(p[2], q[2])>>

----------------------------------------------------------------------------
\* One refinement pass, as both methods compute it on arrays V (vertices)
\* and H (half-edge table) with the counts nv, ne read at the start.

\* isMainHEdge = halfedge[:, 5] == 1, as the set of selected row indices
IsMainHEdge(H) == {i \in DOMAIN H : H[i].primary = 1}

\* halfedge[halfedge[:, 3], 2] = range(n): row prev(j) gets next = j for
\* j = 0..n-1 in turn, a later j overwriting an earlier one
SetNext(H, n) ==
    [p \in DOMAIN H |->
        LET js == {j \in 0..(n - 1) : H[j].prev = p}
        IN  IF js = {} THEN H[p]
            ELSE [H[p] EXCEPT !.next = CHOOSE j \in js : \A k \in js : k <= j]]

\* np.zeros_like(ec[:, 0], dtype=np.bool)
ZerosLike(ec) == [k \in DOMAIN ec |-> FALSE]

\* --- boundary_uniform_refine, one pass of its loop ---

\* The masked assignments of column 0 raise, before anything is written,
\* unless the main rows are NE//2 in number and the other rows as many.
UniformShapesFit(H, ne) ==
    /\ len(H) = ne
    /\ Cardinality(IsMainHEdge(H)) = ne \div 2
    /\ Cardinality(DOMAIN H \ IsMainHEdge(H)) = Cardinality(IsMainHEdge(H))

\* ec = (vertices[halfedge[isMainHEdge, 0]] + vertices[halfedge[idx, 0]])/2
UniformEdgeCenter(V, H) ==
    LET main == Ascending(IsMainHEdge(H))
        idx  == [k \in 1..Len(main) |-> H[main[k]].twin]
    IN  [k \in 0..(Len(main) - 1) |->
            Mid(V[H[main[k + 1]].target], V[H[idx[k + 1]].target])]

\* Mutant of UniformNewVertex: the other rows take the new ids in their own
\* index order, without the argsort of the twin indices.
UniformNewVertexUnsorted(H, nv, i) ==
    LET main == Ascending(IsMainHEdge(H))
        rest == Ascending(DOMAIN H \ IsMainHEdge(H))
    IN  IF H[i].primary = 1
        THEN nv + PosIn(main, i) - 1
        ELSE nv + PosIn(rest, i) - 1

\* Column 0 of halfedge1: the main rows get NV, NV+1, ... in index order,
\* the other rows get the ids of their twins, matched through the argsort
\* of the main rows' twin indices.
UniformNewVertex(H, nv, i) ==
    LET main == Ascending(IsMainHEdge(H))
        rest == Ascending(DOMAIN H \ IsMainHEdge(H))
        idx  == [k \in 1..Len(main) |-> H[main[k]].twin]
        idx0 == Argsort(idx)
    IN  IF H[i].primary = 1
        THEN nv + PosIn(main, i) - 1
        ELSE nv + idx0[PosIn(rest, i)] - 1

\* Mutant of UniformRow1: column 5 of halfedge1 is left at zero.
UniformRow1NoPrimary(H, nv, i) ==
    [target  |-> UniformNewVertex(H, nv, i),
     region  |-> H[i].region,
     next    |-> 0,
     prev    |-> H[i].prev,
     twin    |-> H[i].twin,
     primary |-> 0]

\* Mutant of UniformRow1: column 3 of halfedge1 names the row split.
UniformRow1PrevSelf(H, nv, i) ==
    [target  |-> UniformNewVertex(H, nv, i),
     region  |-> H[i].region,
     next    |-> 0,
     prev    |-> i,
     twin    |-> H[i].twin,
     primary |-> H[i].primary]

\* Row i of halfedge1: zeros, then columns 0, 1, 3, 4, 5 filled in.
UniformRow1(H, nv, i) ==
    [target  |-> UniformNewVertex(H, nv, i),
     region  |-> H[i].region,
     next    |-> 0,
     prev    |-> H[i].prev,
     twin    |-> H[i].twin,
     primary |-> H[i].primary]

\* Mutant of UniformRewire: the new twin is read from the prev column as it
\* was before the pass rewrote it.
UniformRewireStale(H, ne) ==
    [i \in DOMAIN H |-> [H[i] EXCEPT !.prev = ne + i, !.twin = H[H[i].twin].prev]]

\* halfedge[:, 3] = range(NE, 2*NE); idx = halfedge[:, 4];
\* halfedge[:, 4] = halfedge[idx, 3], written into the input array
UniformRewire(H, ne) ==
    LET Ha == [i \in DOMAIN H |-> [H[i] EXCEPT !.prev = ne + i]]
    IN  [i \in DOMAIN H |-> [Ha[i] EXCEPT !.twin = Ha[Ha[i].twin].prev]]

\* Mutant of UniformAppendVertices: the new vertices are put first.
UniformPrependVertices(V, ec) == Concat(ec, V)

\* vertices = np.r_['0', vertices, ec]
UniformAppendVertices(V, ec) == Concat(V, ec)

\*   vertices, halfedge : the new arrays
\*   ec                 : the new vertices alone
\*   mutated            : the input half-edge array object as the pass leaves it
UniformLevel(V, H, nv, ne) ==
    LET ec        == UniformEdgeCenter(V, H)
        halfedge1 == [i \in 0..(ne - 1) |-> UniformRow1(H, nv, i)]
        Hb        == UniformRewire(H, ne)
    IN  [vertices |-> UniformAppendVertices(V, ec),
         halfedge |-> SetNext(Concat(Hb, halfedge1), 2 * ne),
         ec       |-> ec,
         mutated  |-> Hb]

\* --- boundary_adaptive_refine ---

\* isMarkedHEdge[halfedge[isMarkedHEdge, 4]] = True
Symmetrize(H, mark) == mark \cup {H[i].twin : i \in mark}

\* flag0 = isMainHEdge & isMarkedHEdge
Flag0(H, marked) == IsMainHEdge(H) \cap marked

\* ec: the averaged end points of the marked main half-edges, or edgecenter
\* as given.  edgecenter is [given |-> FALSE] for None, else
\* [given |-> TRUE, points |-> array].
EdgeCenter(V, H, marked, edgecenter) ==
    LET main == Ascending(Flag0(H, marked))
        idx  == [k \in 1..Len(main) |-> H[main[k]].twin]
    IN  IF edgecenter.given THEN edgecenter.points
        ELSE [k \in 0..(Len(main) - 1) |->
                 Mid(V[H[main[k + 1]].target], V[H[idx[k + 1]].target])]

\* The boolean mask flag1 has len(marked) entries and indexes the NE1 rows
\* of halfedge1; its true entries receive NE1//2 values and its false
\* entries len(idx0) values.  Any mismatch raises before halfedge is written.
AdaptiveShapesFit(H, marked, ec) ==
    /\ Cardinality(marked) = 2 * len(ec)
    /\ Cardinality(Flag0(H, marked)) = len(ec)
    /\ Cardinality(marked \ IsMainHEdge(H)) = Cardinality(Flag0(H, marked))

\* Mutant of AdaptiveNewVertex: the other rows take the new ids in their own
\* index order, without the argsort of the twin indices.
AdaptiveNewVertexUnsorted(H, nv, marked, i) ==
    LET main == Ascending(Flag0(H, marked))
        rest == Ascending(marked \ IsMainHEdge(H))
    IN  IF H[i].primary = 1
        THEN nv + PosIn(main, i) - 1
        ELSE nv + PosIn(rest, i) - 1

\* Column 0 of the row of halfedge1 that belongs to the marked row i.
AdaptiveNewVertex(H, nv, marked, i) ==
    LET main == Ascending(Flag0(H, marked))
        rest == Ascending(marked \ IsMainHEdge(H))
        idx  == [k \in 1..Len(main) |-> H[main[k]].twin]
        idx0 == Argsort(idx)
    IN  IF H[i].primary = 1
        THEN nv + PosIn(main, i) - 1
        ELSE nv + idx0[PosIn(rest, i)] - 1

\* Mutant of AdaptiveRow1: column 1 of halfedge1 is left at zero.
AdaptiveRow1NoRegion(H, nv, marked, i) ==
    [target  |-> AdaptiveNewVertex(H, nv, marked, i),
     region  |-> 0,
     next    |-> 0,
     prev    |-> H[i].prev,
     twin    |-> H[i].twin,
     primary |-> H[i].primary]

\* The row of halfedge1 that belongs to the marked row i.
AdaptiveRow1(H, nv, marked, i) ==
    [target  |-> AdaptiveNewVertex(H, nv, marked, i),
     region  |-> H[i].region,
     next    |-> 0,
     prev    |-> H[i].prev,
     twin    |-> H[i].twin,
     primary |-> H[i].primary]

\* Mutant of AdaptiveRewire: the twin column is rewritten in every row, as
\* the uniform pass does, not only in the marked rows.
AdaptiveRewireEveryTwin(H, ne, marked) ==
    LET M  == Ascending(marked)
        Ha == [i \in DOMAIN H |->
                 IF i \in marked THEN [H[i] EXCEPT !.prev = ne + PosIn(M, i) - 1]
                 ELSE H[i]]
    IN  [i \in DOMAIN H |-> [Ha[i] EXCEPT !.twin = Ha[Ha[i].twin].prev]]

\* halfedge[isMarkedHEdge, 3] = range(NE, NE + NE1);
\* idx = halfedge[isMarkedHEdge, 4];
\* halfedge[isMarkedHEdge, 4] = halfedge[idx, 3], written into the input array
AdaptiveRewire(H, ne, marked) ==
    LET M  == Ascending(marked)
        Ha == [i \in DOMAIN H |->
                 IF i \in marked THEN [H[i] EXCEPT !.prev = ne + PosIn(M, i) - 1]
                 ELSE H[i]]
    IN  [i \in DOMAIN H |->
            IF i \in marked THEN [Ha[i] EXCEPT !.twin = Ha[Ha[i].twin].prev]
            ELSE Ha[i]]

\*   halfedge : the new table
\*   mutated  : the input half-edge array object as the call leaves it
AdaptiveSplice(H, nv, ne, marked, ec) ==
    LET M         == Ascending(marked)
        NE1       == 2 * len(ec)
        halfedge1 == [k \in 0..(NE1 - 1) |-> AdaptiveRow1(H, nv, marked, M[k + 1])]
        Hb        == AdaptiveRewire(H, ne, marked)
    IN  [halfedge |-> SetNext(Concat(Hb, halfedge1), ne + NE1),
         mutated  |-> Hb]

----------------------------------------------------------------------------
\* Initial domains: the boundary of a K-gon, HalfEdgeDomain(vertices, halfedge)
\* with NS and fixed left to their defaults.

Pt(x, y) == <<<<x, 1>>, <<y, 1>>>>

\* The unit square, a triangle and a two-sided lens.
LensVertices == [i \in 0..1 |-> <<Pt(0, 0), Pt(1, 0)>>[i + 1]]
SquareVertices == [i \in 0..3 |-> <<Pt(0, 0), Pt(1, 0), Pt(1, 1), Pt(0, 1)>>[i + 1]]
TriangleVertices == [i \in 0..2 |-> <<Pt(0, 0), Pt(2, 0), Pt(0, 2)>>[i + 1]]

\* The table of a K-gon.  Before renumbering, row i < K runs from vertex i to
\* vertex i+1 with region rin on its left and row K + i is its twin, with
\* region rout.  num gives each row its index in the table; prim is the set
\* of edges i whose inner half-edge is the main one.
Polygon(K, num, prim, rin, rout) ==
    LET row(c) ==
            IF c < K
            THEN [target  |-> (c + 1) % K,
                  region  |-> rin,
                  next    |-> num[((c + 1) % K) + 1],
                  prev    |-> num[((c + K - 1) % K) + 1],
                  twin    |-> num[(K + c) + 1],
                  primary |-> IF c \in prim THEN 1 ELSE 0]
            ELSE [target  |-> c - K,
                  region  |-> rout,
                  next    |-> num[(K + ((c - 1) % K)) + 1],
                  prev    |-> num[(K + ((c - K + 1) % K)) + 1],
                  twin    |-> num[(c - K) + 1],
                  primary |-> IF (c - K) \in prim THEN 0 ELSE 1]
    IN  [j \in 0..(2 * K - 1) |-> row(CHOOSE c \in 0..(2 * K - 1) : num[c + 1] = j)]

\* The constructor's optional arguments left out.
None == [given |-> FALSE]

\* The constructor's arguments (vertices, halfedge, NS, fixed) tried: each
\* numbering with one choice of main half-edges, and one domain built with
\* NS and fixed given.
InitialDomains ==
    { [vertices |-> SquareVertices,
       halfedge |-> Polygon(4, <<0, 1, 2, 3, 4, 5, 6, 7>>, {0, 1, 2, 3}, 1, 0),
       NS |-> None, fixed |-> None],
      [vertices |-> SquareVertices,
       halfedge |-> Polygon(4, <<0, 2, 4, 6, 1, 3, 5, 7>>, {0, 2}, 1, 2),
       NS |-> None, fixed |-> None],
      [vertices |-> SquareVertices,
       halfedge |-> Polygon(4, <<3, 6, 0, 5, 7, 2, 4, 1>>, {0, 1, 2, 3}, 1, 0),
       NS |-> [given |-> TRUE, value |-> 1],
       fixed |-> [given |-> TRUE,
                  value |-> [i \in 0..3 |-> <<TRUE, FALSE, TRUE, FALSE>>[i + 1]]]],
      [vertices |-> TriangleVertices,
       halfedge |-> Polygon(3, <<0, 1, 2, 3, 4, 5>>, {}, -1, 1),
       NS |-> None, fixed |-> None],
      [vertices |-> TriangleVertices,
       halfedge |-> Polygon(3, <<5, 0, 3, 2, 4, 1>>, {0, 1, 2}, 1, 0),
       NS |-> None, fixed |-> None],
      [vertices |-> LensVertices,
       halfedge |-> Polygon(2, <<0, 1, 2, 3>>, {0, 1}, 1, 0),
       NS |-> None, fixed |-> None],
      [vertices |-> LensVertices,
       halfedge |-> Polygon(2, <<2, 1, 3, 0>>, {1}, 1, 2),
       NS |-> None, fixed |-> None] }

NoCall == [op |-> "init", n |-> 0, mark |-> {}]

\* No is_intersect call is under way, no DynamicArray has been built.
NoSegments == segs = <<>> /\ isret = <<>>

NoArray ==
    /\ data = 0
    /\ cells = <<>>
    /\ size = 0
    /\ capacity = 0
    /\ shape = <<>>
    /\ view = <<>>
    /\ dacall = <<>>

\* create_voronoi_1 has not been called.
NoClip == clip = <<>>

\* no diagram has been handed to create_finite_voronoi
NoDiagram == voronoi = <<>> /\ finite = <<>>

\* HalfEdgeDomain.__init__(vertices, halfedge, NS, fixed)
DomainBuilt ==
    \E d \in InitialDomains :
        /\ vertices = d.vertices
        /\ halfedge = d.halfedge
        /\ NS = IF d.NS.given THEN d.NS.value
                ELSE Cardinality({d.halfedge[i].region : i \in DOMAIN d.halfedge})
        /\ NV = len(d.vertices)
        /\ NE = len(d.halfedge)
        /\ fixed = IF d.fixed.given THEN d.fixed.value
                   ELSE [i \in DOMAIN d.vertices |-> TRUE]
        /\ argv = <<>>
        /\ argh = <<>>
        /\ ret = <<>>
        /\ call = NoCall

Init ==
    /\ DomainBuilt
    /\ NoSegments
    /\ NoArray
    /\ NoClip
    /\ NoDiagram

----------------------------------------------------------------------------
\* The calls.

\* The markings tried: every set of at most MaxMark rows, and all rows.
RECURSIVE SubsetsUpTo(_, _)
SubsetsUpTo(S, k) ==
    IF k = 0 THEN {{}}
    ELSE LET T == SubsetsUpTo(S, k - 1)
         IN  T \cup {t \cup {x} : t \in T, x \in S}

Markings(H) == SubsetsUpTo(DOMAIN H, MaxMark) \cup {DOMAIN H}

\* Mutant of UniformInPlace: the loop body ends the call after its first
\* pass, as the functional branch does.
UniformInPlaceOnePass(D, n) ==
    IF n = 0 THEN D
    ELSE LET L == UniformLevel(D.vertices, D.halfedge, D.NV, D.NE)
         IN  [vertices |-> L.vertices,
              halfedge |-> L.halfedge,
              fixed    |-> Concat(D.fixed, ZerosLike(L.ec)),
              NV       |-> D.NV + D.NE \div 2,
              NE       |-> D.NE * 2]

\* The in-place loop of boundary_uniform_refine: n passes on the domain
\* D = [vertices, halfedge, fixed, NV, NE].
RECURSIVE UniformInPlace(_, _)
UniformInPlace(D, n) ==
    IF n = 0 THEN D
    ELSE LET L == UniformLevel(D.vertices, D.halfedge, D.NV, D.NE)
         IN  UniformInPlace(
                 [vertices |-> L.vertices,
                  halfedge |-> L.halfedge,
                  fixed    |-> Concat(D.fixed, ZerosLike(L.ec)),
                  NV       |-> D.NV + D.NE \div 2,
                  NE       |-> D.NE * 2], n - 1)

Self == [vertices |-> vertices, halfedge |-> halfedge, fixed |-> fixed,
         NV |-> NV, NE |-> NE]

\* self.boundary_uniform_refine(n)
BoundaryUniformRefine(n) ==
    /\ argh = <<>>
    /\ ret = <<>>
    /\ NE * Pow2(n) <= MaxNE
    /\ UniformShapesFit(halfedge, NE)
    /\ LET D == UniformInPlace(Self, n)
       IN  /\ vertices' = D.vertices
           /\ halfedge' = D.halfedge
           /\ fixed' = D.fixed
           /\ NV' = D.NV
           /\ NE' = D.NE
    /\ call' = [op |-> "uniform", n |-> n, mark |-> {}]
    /\ UNCHANGED <<NS, argv, argh, ret>>
    /\ UNCHANGED <<segmentVars, arrayVars, clip, finiteVars>>

\* Mutant of AdaptiveInPlace: NV grows by NE1 instead of NE1//2.
AdaptiveInPlaceCountsRows(D, mark) ==
    LET marked == Symmetrize(D.halfedge, mark)
        ec     == EdgeCenter(D.vertices, D.halfedge, marked, None)
        S      == AdaptiveSplice(D.halfedge, D.NV, D.NE, marked, ec)
        NE1    == 2 * len(ec)
    IN  [vertices |-> Concat(D.vertices, ec),
         halfedge |-> S.halfedge,
         fixed    |-> Concat(D.fixed, ZerosLike(ec)),
         NV       |-> D.NV + NE1,
         NE       |-> D.NE + NE1]

\* The in-place branch of boundary_adaptive_refine on the domain D with the
\* rows of mark set in isMarkedHEdge and edgecenter=None.
AdaptiveInPlace(D, mark) ==
    LET marked == Symmetrize(D.halfedge, mark)
        ec     == EdgeCenter(D.vertices, D.halfedge, marked, None)
        S      == AdaptiveSplice(D.halfedge, D.NV, D.NE, marked, ec)
        NE1    == 2 * len(ec)
    IN  [vertices |-> Concat(D.vertices, ec),
         halfedge |-> S.halfedge,
         fixed    |-> Concat(D.fixed, ZerosLike(ec)),
         NV       |-> D.NV + NE1 \div 2,
         NE       |-> D.NE + NE1]

\* self.boundary_adaptive_refine(isMarkedHEdge) with the rows of mark set.
\* Partial markings are tried while the table stays within MaxAdaptiveNE
\* rows, the full marking while it stays within MaxNE rows.
BoundaryAdaptiveRefine(mark) ==
    LET marked == Symmetrize(halfedge, mark)
        ec     == EdgeCenter(vertices, halfedge, marked, None)
        D      == AdaptiveInPlace(Self, mark)
    IN  /\ argh = <<>>
        /\ ret = <<>>
        /\ \/ NE + Cardinality(marked) <= MaxAdaptiveNE
           \/ mark = DOMAIN halfedge /\ 2 * NE <= MaxNE
        /\ AdaptiveShapesFit(halfedge, marked, ec)
        /\ vertices' = D.vertices
        /\ halfedge' = D.halfedge
        /\ fixed' = D.fixed
        /\ NV' = D.NV
        /\ NE' = D.NE
        /\ call' = [op |-> "adaptive", n |-> 0, mark |-> mark]
        /\ UNCHANGED <<NS, argv, argh, ret>>
        /\ UNCHANGED <<segmentVars, arrayVars, clip, finiteVars>>

\* A caller prepares arrays of its own for functional mode, as
\* create_voronoi_1 does: copies of the domain's arrays.
CopyArrays ==
    /\ argh = <<>>
    /\ NE <= MaxCopyNE
    /\ argv' = vertices
    /\ argh' = halfedge
    /\ ret' = <<>>
    /\ call' = [op |-> "copy", n |-> 0, mark |-> {}]
    /\ UNCHANGED <<vertices, halfedge, fixed, NV, NE, NS>>
    /\ UNCHANGED <<segmentVars, arrayVars, clip, finiteVars>>

\* self.boundary_uniform_refine(n, vertices=argv, halfedge=argh): the loop
\* body returns at the end of its first pass; with n = 0 the loop is not
\* entered and the call returns None.  The caller's half-edge array is the
\* object the pass writes prev and twin into before concatenating.
\* (A second call on the arrays a call has written raises IndexError at the
\* first use of the twin column, so calls are made on fresh copies.)
UniformRefineFunctional(n) ==
    /\ argh # <<>>
    /\ ret = <<>>
    /\ call.op = "copy"
    /\ UniformShapesFit(argh, len(argh))
    /\ LET L == UniformLevel(argv, argh, len(argv), len(argh))
       IN  IF n = 0
           THEN /\ ret' = <<"None">>
                /\ argh' = argh
           ELSE /\ ret' = <<L.vertices, L.halfedge>>
                /\ argh' = L.mutated
    /\ call' = [op |-> "uniform_f", n |-> n, mark |-> {}]
    /\ UNCHANGED <<vertices, halfedge, fixed, NV, NE, NS, argv>>
    /\ UNCHANGED <<segmentVars, arrayVars, clip, finiteVars>>

\* self.boundary_adaptive_refine(isMarkedHEdge, vertices=argv, halfedge=argh)
\* returns (ec, halfedge).
AdaptiveRefineFunctional(mark) ==
    LET marked == Symmetrize(argh, mark)
        ec     == EdgeCenter(argv, argh, marked, None)
        S      == AdaptiveSplice(argh, len(argv), len(argh), marked, ec)
    IN  /\ argh # <<>>
        /\ ret = <<>>
        /\ call.op = "copy"
        /\ AdaptiveShapesFit(argh, marked, ec)
        /\ ret' = <<ec, S.halfedge>>
        /\ argh' = S.mutated
        /\ call' = [op |-> "adaptive_f", n |-> 0, mark |-> mark]
        /\ UNCHANGED <<vertices, halfedge, fixed, NV, NE, NS, argv>>
        /\ UNCHANGED <<segmentVars, arrayVars, clip, finiteVars>>

\* np.unique(x): the values of x, ascending
Unique(x) == Ascending({x[i] : i \in DOMAIN x})

\* Mutant of UniqueInverse: positions counted from 1.
UniqueInverseFromOne(x) == [i \in DOMAIN x |-> PosIn(Unique(x), x[i])]

\* j of np.unique(x, return_inverse=True): the position of x[i] in Unique(x)
UniqueInverse(x) == [i \in DOMAIN x |-> PosIn(Unique(x), x[i]) - 1]

\* self.to_halfedgemesh(): what is handed to HalfEdgeMesh(node, subdomain,
\* halfedge), copies of the domain's arrays with column 1 of the table
\* replaced by j.
ToHalfEdgeMesh ==
    LET node      == vertices
        column1   == [i \in DOMAIN halfedge |-> halfedge[i].region]
        subdomain == Unique(column1)
        j         == UniqueInverse(column1)
    IN  /\ argh = <<>>
        /\ ret = <<>>
        /\ ret' = <<node, subdomain,
                    [i \in DOMAIN halfedge |-> [halfedge[i] EXCEPT !.region = j[i]]]>>
        /\ call' = [op |-> "to_halfedgemesh", n |-> 0, mark |-> {}]
        /\ UNCHANGED <<vertices, halfedge, fixed, NV, NE, NS, argv, argh>>
        /\ UNCHANGED <<segmentVars, arrayVars, clip, finiteVars>>

\* The caller drops its arrays and what was returned.
Discard ==
    /\ ret # <<>>
    /\ argv' = <<>>
    /\ argh' = <<>>
    /\ ret' = <<>>
    /\ call' = [op |-> "discard", n |-> 0, mark |-> {}]
    /\ UNCHANGED <<vertices, halfedge, fixed, NV, NE, NS>>
    /\ UNCHANGED <<segmentVars, arrayVars, clip, finiteVars>>

Next ==
    \/ \E n \in 0..MaxLevels : BoundaryUniformRefine(n)
    \/ \E mark \in Markings(halfedge) : BoundaryAdaptiveRefine(mark)
    \/ CopyArrays
    \/ \E n \in 0..MaxLevels : UniformRefineFunctional(n)
    \/ \E mark \in Markings(argh) : AdaptiveRefineFunctional(mark)
    \/ ToHalfEdgeMesh
    \/ Discard

Spec == Init /\ [][Next]_vars

----------------------------------------------------------------------------
\* is_intersect(p0, p1, v0, v1, returnin): the arguments are arrays of shape
\* (n, 2), a point is <<x, y>>; a quotient is a pair <<numerator,
\* denominator>>.

\* np.cross of two plane vectors
Cross(a, b) == a[1] * b[2] - a[2] * b[1]

Minus(a, b) == <<a[1] - b[1], a[2] - b[2]>>

\* The dtypes for which numpy has a bitwise_and loop: what `x & y` yields
\* for operands of dtypes k1 and k2, "TypeError" where there is none.  A
\* python float operand counts as float64.
BitwiseAnd(k1, k2) ==
    IF k1 = "float64" \/ k2 = "float64" THEN "TypeError"
    ELSE IF k1 = "int64" \/ k2 = "int64" THEN "int64"
    ELSE "bool"

\* x/y as numpy stores it into an array of dtype k: the quotient itself in
\* a float array, truncated towards zero in an integer array.
Stored(x, y, k) ==
    IF k = "float64" THEN <<x, y>>
    ELSE LET ax == IF x < 0 THEN -x ELSE x
             ay == IF y < 0 THEN -y ELSE y
             q  == ax \div ay
         IN  <<IF (x < 0) = (y < 0) THEN q ELSE -q, 1>>

\* 0 <= q <= 1 for a quotient q
InUnit(q) ==
    IF q[2] > 0 THEN 0 <= q[1] /\ q[1] <= q[2]
    ELSE q[2] <= q[1] /\ q[1] <= 0

\* The call is_intersect(a.p0, a.p1, a.v0, a.v1, a.returnin) on arrays of
\* dtype a.dtype.  Line 517 reads
\*     flag & t >= 0.0 & t <= 1.0 & u >= 0.0 & u <= 1.0
\* where & binds tighter than the comparisons: its operands are flag & t,
\* 0.0 & t, 1.0 & u and 0.0 & u, and 0.0 & t has no bitwise_and loop for any
\* dtype of t, so the line raises TypeError on every call.
is_intersect(a) ==
    LET n     == len(a.p0)
        s     == [i \in 0..(n - 1) |-> Minus(a.p1[i], a.p0[i])]
        r     == [i \in 0..(n - 1) |-> Minus(a.v1[i], a.v0[i])]
        v     == [i \in 0..(n - 1) |-> Minus(a.v0[i], a.p1[i])]
        c0    == [i \in 0..(n - 1) |-> Cross(r[i], s[i])]
        c1    == [i \in 0..(n - 1) |-> Cross(v[i], r[i])]
        c2    == [i \in 0..(n - 1) |-> Cross(v[i], s[i])]
        isColinear == [i \in 0..(n - 1) |-> c0[i] = 0 /\ c1[i] = 0]
        isParallel == [i \in 0..(n - 1) |-> c0[i] = 0 /\ c1[i] # 0]
        flag  == [i \in 0..(n - 1) |-> ~isColinear[i] /\ ~isParallel[i]]
        t     == [i \in 0..(n - 1) |->
                    IF flag[i] THEN Stored(c2[i], c0[i], a.dtype) ELSE <<0, 1>>]
        u     == [i \in 0..(n - 1) |->
                    IF flag[i] THEN Stored(c1[i], c0[i], a.dtype) ELSE <<0, 1>>]
        operands == {BitwiseAnd("bool", a.dtype), BitwiseAnd("float64", a.dtype)}
    IN  IF "TypeError" \in operands
        THEN [ended |-> "TypeError"]
        ELSE [ended |-> "returned",
              isIntersect |-> [i \in 0..(n - 1) |->
                                  flag[i] /\ InUnit(t[i]) /\ InUnit(u[i])],
              point |-> [i \in 0..(n - 1) |->
                            <<<<a.p0[i][1] * t[i][2] + s[i][1] * t[i][1], t[i][2]>>,
                              <<a.p0[i][2] * t[i][2] + s[i][2] * t[i][1], t[i][2]>>>>]]

\* The points with integer coordinates in 0..MaxCoord.
Grid == {<<x, y>> : x \in 0..MaxCoord, y \in 0..MaxCoord}

\* The domain the other operations are called beside: the unit square.
SquareDomain ==
    /\ vertices = SquareVertices
    /\ halfedge = Polygon(4, <<0, 1, 2, 3, 4, 5, 6, 7>>, {0, 1, 2, 3}, 1, 0)
    /\ NS = 2
    /\ NV = 4
    /\ NE = 8
    /\ fixed = [i \in 0..3 |-> TRUE]
    /\ argv = <<>>
    /\ argh = <<>>
    /\ ret = <<>>
    /\ call = NoCall

\* One pair of segments with end points on the grid, as arrays of one row.
InitIntersect ==
    /\ SquareDomain
    /\ NoArray
    /\ NoClip
    /\ NoDiagram
    /\ \E a \in Grid, b \in Grid, c \in Grid, d \in Grid,
          returnin \in BOOLEAN, dtype \in {"float64", "int64"} :
          segs = [p0 |-> [i \in {0} |-> a], p1 |-> [i \in {0} |-> b],
                  v0 |-> [i \in {0} |-> c], v1 |-> [i \in {0} |-> d],
                  returnin |-> returnin, dtype |-> dtype]
    /\ isret = <<>>

\* self.is_intersect(p0, p1, v0, v1, returnin)
IsIntersectCall ==
    /\ isret = <<>>
    /\ isret' = is_intersect(segs)
    /\ UNCHANGED <<segs, domainVars, arrayVars, clip, finiteVars>>

NextIntersect == IsIntersectCall

SpecIntersect == InitIntersect /\ [][NextIntersect]_vars

----------------------------------------------------------------------------
\* DynamicArray (fealpy/common/DynamicArray.py), one-dimensional, of
\* integers.  data is the identity of the numpy array self.data refers to,
\* cells what that array holds.  The array last returned to the caller is a
\* slice [lo, hi) of the array of identity base; an array that self.data no
\* longer refers to is out of the buffer's reach, and its cells are not
\* kept.

\* The integers stored.
Values == {0, 1}

Max(a, b) == IF a >= b THEN a ELSE b

\* Mutant of np_resize: the new array is not filled from the old one.
np_resizeEmpty(a, new_size) == [i \in 0..(new_size - 1) |-> 0]

\* np.resize(a, new_size): the cells of a new array, repeated copies of a,
\* zeros if a is empty.
np_resize(a, new_size) ==
    IF len(a) = 0 \/ new_size = 0
    THEN [i \in 0..(new_size - 1) |-> 0]
    ELSE [i \in 0..(new_size - 1) |-> a[i % len(a)]]

\* The identity a newly allocated array gets: one that no array referred
\* to has (d is self.data, w the array the caller holds).
Fresh(d, w) == CHOOSE id \in 1..3 : id \notin {d, w.base}

\* No array has been returned to the caller.
NoView == [base |-> 0, lo |-> 0, hi |-> 0, resized |-> FALSE]

\* Mutant of GrownCapacity: doubles, whatever is required.
GrownCapacityDoubling(cap, required_size) == 2 * cap

\* max(2*self.capacity, required_size)
GrownCapacity(cap, required_size) == Max(2 * cap, required_size)

\* `if required_size >= self.capacity`
MustGrow(cap, required_size) == required_size >= cap

\* Mutant of resize: the array is resized in place and keeps its identity.
resizeInPlace(d, a, w, new_size) ==
    [data |-> d, cells |-> np_resize(a, new_size), capacity |-> new_size]

\* self.resize(new_size), where self.data is the array d of cells a and
\* the caller holds w
resize(d, a, w, new_size) ==
    [data |-> Fresh(d, w), cells |-> np_resize(a, new_size),
     capacity |-> new_size]

\* What indexing past the slots raises.
IndexError == <<>>

\* Mutant of GetItem: indexes the whole backing array.
GetItemUnsliced(a, sz, idx) ==
    IF idx \in DOMAIN a THEN <<a[idx]>> ELSE IndexError

\* self.data[:self.size][idx]: <<the value>>, or IndexError
GetItem(a, sz, idx) ==
    IF idx \in 0..(sz - 1) THEN <<a[idx]>>
    ELSE IF idx \in (-sz)..(-1) THEN <<a[sz + idx]>>
    ELSE IndexError

\* DynamicArray(n, capacity=c) or DynamicArray(array, capacity=c): n slots
\* in an np.empty array of max(n, c) cells, whose cells hold what the array
\* given holds and, elsewhere, whatever the memory held.
InitArray ==
    /\ SquareDomain
    /\ NoSegments
    /\ NoClip
    /\ NoDiagram
    /\ \E n \in 0..MaxInitCapacity, c \in 0..MaxInitCapacity :
          /\ size = n
          /\ capacity = Max(n, c)
          /\ shape = <<n>>
          /\ cells \in [0..(Max(n, c) - 1) -> Values]
    /\ data = 1
    /\ view = NoView
    /\ dacall = [op |-> "init", s |-> 0, ended |-> "returned"]

\* The slice self.data[lo:hi], as the caller holds it.
Slice(d, lo, hi) == [base |-> d, lo |-> lo, hi |-> hi, resized |-> FALSE]

\* The array the caller holds, after a call that did or did not resize.
Held(w, resized) == [w EXCEPT !.resized = w.resized \/ (resized /\ w.base # 0)]

\* self.increase_size(s)
IncreaseSize(s) ==
    LET required_size == size + s
        R == IF MustGrow(capacity, required_size)
             THEN resize(data, cells, view, GrownCapacity(capacity, required_size))
             ELSE [data |-> data, cells |-> cells, capacity |-> capacity]
    IN  /\ R.capacity <= MaxCapacity
        /\ view' = Slice(R.data, size, required_size)
        /\ data' = R.data
        /\ cells' = R.cells
        /\ capacity' = R.capacity
        /\ size' = required_size
        /\ dacall' = [op |-> "increase_size", s |-> s, ended |-> "returned"]
        /\ UNCHANGED <<shape, domainVars, segmentVars, clip, finiteVars>>

\* self.decrease_size(s)
DecreaseSize(s) ==
    IF ~(s <= size)
    THEN /\ dacall' = [op |-> "decrease_size", s |-> s, ended |-> "AssertionError"]
         /\ UNCHANGED <<data, cells, size, capacity, shape, view>>
         /\ UNCHANGED <<domainVars, segmentVars, clip, finiteVars>>
    ELSE LET required_size == size - s
         IN  /\ view' = Slice(data, required_size, size)
             /\ size' = required_size
             /\ dacall' = [op |-> "decrease_size", s |-> s, ended |-> "returned"]
             /\ UNCHANGED <<data, cells, capacity, shape>>
             /\ UNCHANGED <<domainVars, segmentVars, clip, finiteVars>>

\* self.extend(values), values a sequence of integers
Extend(values) ==
    LET required_size == size + Len(values)
        grow == MustGrow(capacity, required_size)
        R == IF grow
             THEN resize(data, cells, view, GrownCapacity(capacity, required_size))
             ELSE [data |-> data, cells |-> cells, capacity |-> capacity]
    IN  /\ R.capacity <= MaxCapacity
        /\ view' = Held(view, grow)
        /\ data' = R.data
        /\ cells' = [i \in DOMAIN R.cells |->
                        IF size <= i /\ i < required_size
                        THEN values[i - size + 1] ELSE R.cells[i]]
        /\ capacity' = R.capacity
        /\ size' = required_size
        /\ dacall' = [op |-> "extend", s |-> Len(values), values |-> values,
                      ended |-> "returned"]
        /\ UNCHANGED <<shape, domainVars, segmentVars, clip, finiteVars>>

\* self.shrink()
Shrink ==
    LET R == resize(data, cells, view, size)
    IN  /\ view' = Held(view, TRUE)
        /\ data' = R.data
        /\ cells' = R.cells
        /\ capacity' = R.capacity
        /\ dacall' = [op |-> "shrink", s |-> 0, ended |-> "returned"]
        /\ UNCHANGED <<size, shape, domainVars, segmentVars, clip, finiteVars>>

\* The caller writes x into cell k of the array it holds: a cell of
\* self.data if that is the array the slice was taken of.
WriteView(k, x) ==
    /\ view.base # 0
    /\ view.lo + k < view.hi
    /\ cells' = IF view.base = data
                THEN [cells EXCEPT ![view.lo + k] = x]
                ELSE cells
    /\ dacall' = [op |-> "write", s |-> k, x |-> x, ended |-> "returned"]
    /\ UNCHANGED <<data, size, capacity, shape, view, domainVars, segmentVars, clip, finiteVars>>

\* The sequences of at most n values.
SeqsUpTo(n) == UNION {[1..k -> Values] : k \in 0..n}

NextArray ==
    \/ \E s \in 0..MaxCapacity : IncreaseSize(s)
    \/ \E s \in 0..MaxCapacity : DecreaseSize(s)
    \/ \E values \in SeqsUpTo(2) : Extend(values)
    \/ Shrink
    \/ \E k \in 0..MaxCapacity, x \in Values : WriteView(k, x)

SpecArray == InitArray /\ [][NextArray]_vars

----------------------------------------------------------------------------
\* create_voronoi_1(points): the boundary-clipped construction.  What scipy
\* computes from the points (the nearest generator of each vertex, which
\* generators share a ridge) is an input of the model.

Generators == 0..(MaxGenerators - 1)

\* The pairs g < h of generators: the ridges a diagram can have.
GeneratorPairs == {q \in Generators \X Generators : q[1] < q[2]}

\* neighbor (lines 420-422) for the ridges adj: the index + 1 of one end of
\* the ridge of g and h in ve, of the other end for h and g, 0 if g and h
\* share no ridge.
Neighbor(adj) ==
    [g \in Generators, h \in Generators |->
        IF <<g, h>> \in adj THEN 1 ELSE IF <<h, g>> \in adj THEN 2 ELSE 0]

\* ve, the end points of the ridges: one segment, from (0, 1) to (1, 0),
\* stands for every ridge.
RidgeEnds == [i \in 0..1 |-> <<i, 1 - i>>]

\* a[i] where i may be negative: numpy counts a negative index from the end.
At(a, i) == a[IF i < 0 THEN len(a) + i ELSE i]

\* A vertex with integer coordinates as a row of a float array.
Flat(p) == <<p[1][1], p[2][1]>>

\* a[sel] for a boolean selection sel of the indices of a
Masked(a, sel) ==
    LET idx == Ascending(sel)
    IN  [i \in 0..(Len(idx) - 1) |-> a[idx[i + 1]]]

\* The call is under way; nothing is built yet.
Called == [pc |-> "called", line |-> 391, halfedge1 |-> <<>>, gindex |-> <<>>,
           adj |-> {}, iters |-> 0]

\* Lines 434-441 on the table H: e0, e1, the end points of the main
\* half-edges in the order of their rows, and d0, d1, their generators'
\* entries of neighbor.
MainEdges(c) ==
    LET H    == c.halfedge1
        main == Ascending(IsMainHEdge(H))
        n    == Len(main)
        e0   == [k \in 0..(n - 1) |-> H[H[main[k + 1]].prev].target]
        e1   == [k \in 0..(n - 1) |-> H[main[k + 1]].target]
        nb   == Neighbor(c.adj)
    IN  [n  |-> n,
         e0 |-> e0,
         e1 |-> e1,
         d0 |-> [k \in 0..(n - 1) |-> nb[c.gindex[e0[k]], c.gindex[e1[k]]]],
         d1 |-> [k \in 0..(n - 1) |-> nb[c.gindex[e1[k]], c.gindex[e0[k]]]]]

\* self.is_intersect(p0, p1, v0, v1, returnin) on the main edges sel
EdgeRidgeIntersect(V, E, sel, returnin) ==
    is_intersect([p0 |-> Masked([k \in 0..(E.n - 1) |-> Flat(V[E.e0[k]])], sel),
                  p1 |-> Masked([k \in 0..(E.n - 1) |-> Flat(V[E.e1[k]])], sel),
                  v0 |-> Masked([k \in 0..(E.n - 1) |-> At(RidgeEnds, E.d0[k] - 1)], sel),
                  v1 |-> Masked([k \in 0..(E.n - 1) |-> At(RidgeEnds, E.d1[k] - 1)], sel),
                  returnin |-> returnin, dtype |-> "float64"])

\* One pass of the body of `while True` (lines 434-462) from the state c of
\* the call, V the vertices.  Line 454,
\*     isMarkedHEdge[isMainHEdge][~isNGenerator & isNotSGenerator] = True,
\* assigns into the copy that isMarkedHEdge[isMainHEdge] makes, so
\* isMarkedHEdge stays all False; line 457 calls
\* self.halfedge_adaptive_refine, which the class does not define.
LoopPass(c, V) ==
    LET E     == MainEdges(c)
        isNG0 == {k \in 0..(E.n - 1) : E.d0[k] > 0}
        X     == EdgeRidgeIntersect(V, E, isNG0, FALSE)
        isNGenerator == IF isNG0 = {} THEN isNG0
                        ELSE {k \in isNG0 : X.isIntersect[PosIn(Ascending(isNG0), k) - 1]}
        isNotSGenerator == {k \in 0..(E.n - 1) :
                               c.gindex[E.e0[k]] # c.gindex[E.e1[k]]}
        copy  == [k \in 0..(E.n - 1) |->
                     k \notin isNGenerator /\ k \in isNotSGenerator]
        isMarkedHEdge == [i \in DOMAIN c.halfedge1 |-> FALSE]
    IN  IF isNG0 # {} /\ X.ended # "returned"
        THEN [c EXCEPT !.pc = "raised", !.line = 449]
        ELSE IF \E i \in DOMAIN isMarkedHEdge : isMarkedHEdge[i]
        THEN [c EXCEPT !.pc = "raised", !.line = 457]
        ELSE [c EXCEPT !.pc = "exited", !.line = 462, !.iters = c.iters + 1]

\* Lines 464-494 from the state c: the final pass.  is_intersect is called
\* on the edges whose end points have different generators (on empty arrays
\* if there is none); line 483 calls self.halfedge_adaptive_refine.
FinalPass(c, V) ==
    LET E == MainEdges(c)
        isNotSGenerator == {k \in 0..(E.n - 1) :
                               c.gindex[E.e0[k]] # c.gindex[E.e1[k]]}
        X == EdgeRidgeIntersect(V, E, isNotSGenerator, TRUE)
    IN  IF X.ended # "returned"
        THEN [c EXCEPT !.pc = "raised", !.line = 478]
        ELSE [c EXCEPT !.pc = "raised", !.line = 483]

\* self.create_voronoi_1(points) is called on a domain just built.
InitClip ==
    /\ DomainBuilt
    /\ NoSegments
    /\ NoArray
    /\ NoDiagram
    /\ clip = Called

\* Lines 400-430 with voronoi.ridge_vertices the list of lists that scipy
\* makes it: `rv[:, 0]` at line 411 raises TypeError.
SetUpRaises ==
    /\ clip.pc = "called"
    /\ clip' = [clip EXCEPT !.pc = "raised", !.line = 411]
    /\ UNCHANGED <<domainVars, segmentVars, arrayVars, finiteVars>>

\* Lines 400-430 where the diagram's arrays can be indexed as they are
\* written to be: gindex is the nearest generator of each vertex
\* (tree.query), adj the ridges, halfedge1 a copy of the table.
SetUp ==
    /\ clip.pc = "called"
    /\ \E gindex \in [DOMAIN vertices -> Generators], adj \in SUBSET GeneratorPairs :
          clip' = [pc |-> "loop", line |-> 433, halfedge1 |-> halfedge,
                   gindex |-> gindex, adj |-> adj, iters |-> 0]
    /\ UNCHANGED <<domainVars, segmentVars, arrayVars, finiteVars>>

\* One pass of the loop.
LoopIteration ==
    /\ clip.pc = "loop"
    /\ clip' = LoopPass(clip, vertices)
    /\ UNCHANGED <<domainVars, segmentVars, arrayVars, finiteVars>>

\* The lines after the loop.
AfterLoop ==
    /\ clip.pc = "exited"
    /\ clip' = FinalPass(clip, vertices)
    /\ UNCHANGED <<domainVars, segmentVars, arrayVars, finiteVars>>

NextClip ==
    \/ SetUpRaises
    \/ SetUp
    \/ LoopIteration
    \/ AfterLoop

SpecClip == InitClip /\ [][NextClip]_vars

----------------------------------------------------------------------------
\* create_finite_voronoi(points): the half-edge table of a Voronoi diagram
\* closed by far vertices.  What scipy computes is the input: a diagram is
\* a record NG (generators), nv (diagram vertices), rp (ridge_points) and
\* rv (ridge_vertices), the two arrays one row per ridge, a row <<a, b>>
\* holding column 0 first and column 1 second.

Col0(row) == row[1]
Col1(row) == row[2]

\* The ridges of three diagrams in general position, one listing of each:
\* three generators around one vertex; four generators on a convex hull
\* around two vertices; three generators around a fourth, whose region is
\* the triangle of the three vertices.
Shapes ==
    { [NG |-> 3, nv |-> 1,
       ridges |-> <<[g |-> <<0, 1>>, v |-> <<-1, 0>>],
                    [g |-> <<1, 2>>, v |-> <<-1, 0>>],
                    [g |-> <<2, 0>>, v |-> <<-1, 0>>]>>],
      [NG |-> 4, nv |-> 2,
       ridges |-> <<[g |-> <<0, 1>>, v |-> <<-1, 0>>],
                    [g |-> <<1, 2>>, v |-> <<-1, 0>>],
                    [g |-> <<2, 3>>, v |-> <<-1, 1>>],
                    [g |-> <<3, 0>>, v |-> <<-1, 1>>],
                    [g |-> <<0, 2>>, v |-> <<0, 1>>]>>],
      [NG |-> 4, nv |-> 3,
       ridges |-> <<[g |-> <<0, 1>>, v |-> <<-1, 0>>],
                    [g |-> <<1, 2>>, v |-> <<-1, 1>>],
                    [g |-> <<2, 0>>, v |-> <<-1, 2>>],
                    [g |-> <<0, 3>>, v |-> <<2, 0>>],
                    [g |-> <<1, 3>>, v |-> <<0, 1>>],
                    [g |-> <<2, 3>>, v |-> <<1, 2>>]>>] }

Swapped(row) == <<row[2], row[1]>>

\* Voronoi(points): scipy promises neither an order of the ridges nor an
\* order of the two generators of a ridge nor of the two ends of a bounded
\* ridge; an unbounded ridge has -1 in column 0.  The listings are the
\* rotations of a shape's ridges, each ridge with its generators and, when
\* bounded, its ends in either order.
Diagrams ==
    UNION { { [NG |-> S.NG, nv |-> S.nv,
               rp |-> [i \in 0..(Len(S.ridges) - 1) |->
                          LET b == S.ridges[((i + r) % Len(S.ridges)) + 1]
                          IN  IF i \in F THEN Swapped(b.g) ELSE b.g],
               rv |-> [i \in 0..(Len(S.ridges) - 1) |->
                          LET b == S.ridges[((i + r) % Len(S.ridges)) + 1]
                          IN  IF i \in G /\ b.v[1] # -1
                              THEN Swapped(b.v) ELSE b.v]] :
              r \in 0..(Len(S.ridges) - 1),
              F \in SUBSET (0..(Len(S.ridges) - 1)),
              G \in SUBSET (0..(Len(S.ridges) - 1)) } : S \in Shapes }

\* _, cols = (ma*mb.T).nonzero() for the one-entry-per-row matrices of the
\* columns a and b: the l with a[k] = b[l], row k by row k from row k on
RECURSIVE NonzeroCols(_, _, _)
NonzeroCols(a, b, k) ==
    IF k >= len(a) THEN <<>>
    ELSE Ascending({l \in DOMAIN b : a[k] = b[l]}) \o NonzeroCols(a, b, k + 1)

\* Mutant of TwinOfRow: the second half of the table points at itself.
TwinOfRowSelf(h, ne, nn) ==
    IF h < ne + nn THEN h + ne + nn ELSE h

\* halfedge[:, 4], lines 338, 343, 348 and 352: the rows of the first half
\* and of the second half pair up in order
TwinOfRow(h, ne, nn) ==
    IF h < ne + nn THEN h + ne + nn ELSE h - (ne + nn)

\* Lines 331-352 without the targets of the last nn rows: the 2*ne + 2*nn
\* rows of the table.  rp has its first row swapped (line 307), rv has the
\* far vertices in place of -1 (line 317), inf lists the unbounded ridges.
TableRows(rp, rv, inf, nv, NG) ==
    LET ne == len(rv)
        nn == Len(inf)
        mid == ne + nn
    IN  [h \in 0..(2 * ne + 2 * nn - 1) |->
            [target  |-> IF h < ne THEN Col1(rv[h])
                         ELSE IF h < mid THEN nv + (h - ne)
                         ELSE IF h < mid + ne THEN Col0(rv[h - mid])
                         ELSE 0,
             region  |-> IF h < ne THEN Col0(rp[h])
                         ELSE IF h < mid THEN Col0(rp[inf[h - ne + 1]])
                         ELSE IF h < mid + ne THEN Col1(rp[h - mid])
                         ELSE NG,
             next    |-> 0,
             prev    |-> 0,
             twin    |-> TwinOfRow(h, ne, nn),
             primary |-> IF h < mid THEN 1 ELSE 0]]

\* Line 350, halfedge[mid+ne:, 0] = halfedge[ne:mid, 0][pre]: nn cells take
\* len(pre) values, one value is broadcast, any other count does not fit.
FarTargetsFit(pre, nn) == Len(pre) = nn \/ Len(pre) = 1

FarTargets(H, pre, ne, nn) ==
    [h \in DOMAIN H |->
        IF h < 2 * ne + nn THEN H[h]
        ELSE LET j == h - (2 * ne + nn)
                 p == IF Len(pre) = 1 THEN pre[1] ELSE pre[j + 1]
             IN  [H[h] EXCEPT !.target = H[ne + p].target]]

\* node2halfedge[halfedge[flag, 0], c] = idx[flag], lines 361, 363 and 365:
\* every node takes the last flagged row that points at it, 0 if none does
Node2HalfEdge(H, NN, flag) ==
    [v \in 0..(NN - 1) |->
        LET W == {h \in flag : H[h].target = v}
        IN  IF W = {} THEN 0 ELSE CHOOSE h \in W : \A g \in W : g <= h]

\* flag[node2halfedge[:, c]] = False, lines 362 and 364
Unflag(flag, slot) == flag \ {slot[v] : v \in DOMAIN slot}

\* One pair of lines among 371-384:
\*   flag = halfedge[node2halfedge[:, a], 1] == halfedge[idx, 1]
\*   halfedge[node2halfedge[flag, a], 2] = idx[flag]
\* the row a node holds in slot a takes as its next the twin of the row the
\* node holds in another slot, if the two have one region id.
NextPass(H, slot, idx) ==
    [h \in DOMAIN H |->
        LET W == {v \in DOMAIN slot :
                     slot[v] = h /\ H[slot[v]].region = H[idx[v]].region}
        IN  IF W = {} THEN H[h]
            ELSE [H[h] EXCEPT
                     !.next = idx[CHOOSE v \in W : \A u \in W : u <= v]]]

\* Lines 354-384: the three rows that point at each node, then the six
\* passes that set the next column.
ResolveNext(H, NN) ==
    LET s0 == Node2HalfEdge(H, NN, DOMAIN H)
        f1 == Unflag(DOMAIN H, s0)
        s1 == Node2HalfEdge(H, NN, f1)
        f2 == Unflag(f1, s1)
        s2 == Node2HalfEdge(H, NN, f2)
        idx0 == [v \in DOMAIN s0 |-> H[s0[v]].twin]
        idx1 == [v \in DOMAIN s1 |-> H[s1[v]].twin]
        idx2 == [v \in DOMAIN s2 |-> H[s2[v]].twin]
        H1 == NextPass(H, s0, idx1)
        H2 == NextPass(H1, s1, idx0)
        H3 == NextPass(H2, s0, idx2)
        H4 == NextPass(H3, s2, idx0)
        H5 == NextPass(H4, s1, idx2)
    IN  NextPass(H5, s2, idx1)

\* create_finite_voronoi from line 303 on: how the call ends and, when it
\* returns, what it hands to HalfEdgeMesh.
create_finite_voronoi(vor) ==
    LET ne == len(vor.rv)
        nv == vor.nv
        rp == [vor.rp EXCEPT ![0] = Swapped(@)]
        isInfVertices == {i \in DOMAIN vor.rv : Col0(vor.rv[i]) = -1}
        inf == Ascending(isInfVertices)
        nn == Len(inf)
        rv == [i \in DOMAIN vor.rv |->
                  IF i \in isInfVertices
                  THEN <<nv + PosIn(inf, i) - 1, Col1(vor.rv[i])>>
                  ELSE vor.rv[i]]
        edge == [k \in 0..(nn - 1) |-> rp[inf[k + 1]]]
        pre == NonzeroCols([k \in DOMAIN edge |-> Col1(edge[k])],
                           [k \in DOMAIN edge |-> Col0(edge[k])], 0)
        H == TableRows(rp, rv, inf, nv, vor.NG)
    IN  IF ~FarTargetsFit(pre, nn)
        THEN [ended |-> "ValueError"]
        ELSE [ended |-> "returned",
              ne |-> ne,
              nn |-> nn,
              NN |-> nv + nn,
              NC |-> vor.NG,
              halfedge |-> ResolveNext(FarTargets(H, pre, ne, nn), nv + nn)]

\* scipy has computed a diagram; create_finite_voronoi has not been called.
InitFinite ==
    /\ SquareDomain
    /\ NoSegments
    /\ NoArray
    /\ NoClip
    /\ voronoi \in Diagrams
    /\ finite = <<>>

CreateFiniteVoronoi ==
    /\ finite = <<>>
    /\ finite' = create_finite_voronoi(voronoi)
    /\ UNCHANGED <<voronoi, domainVars, segmentVars, arrayVars, clip>>

NextFinite == CreateFiniteVoronoi

SpecFinite == InitFinite /\ [][NextFinite]_vars

----------------------------------------------------------------------------
\* voronoi_mesh(n, c, theta): the points generated along the boundary and
\* the index map that merges near ones.  The coordinates (square roots and
\* arcsines, lines 74-138) are outside the model; what they decide, the rows
\* taken as corners (line 108) and the rows flagged near (line 132), is an
\* input of the call.

\* the set of region ids present in a table
Regions(H) == {H[h].region : h \in DOMAIN H}

\* np.nonzero(self.fixed[halfedge[:, 0]]), lines 91-92
FixedRows(H, F) == {h \in DOMAIN H : F[H[h].target]}

\* Lines 109 and 113-114, idx = idx[isCorner] and then pre[idx], p0[idx],
\* nex[idx], p2[idx]: row numbers index arrays that have one entry per row
\* of FixedRows
CornerIndexFits(H, F, corner) ==
    \A h \in corner : h < Cardinality(FixedRows(H, F))

\* Lines 140-142, idx = np.arange(NB); idx[idx2[isNearSite]] = idx[isNearSite]:
\* the entry of next(h) becomes h for the flagged h in turn
MergeIdx(H, near) ==
    [i \in DOMAIN H |->
        LET W == {h \in near : H[h].next = i}
        IN  IF W = {} THEN i ELSE CHOOSE h \in W : \A g \in W : g <= h]

\* Lines 144-145: isKeepNode, as the set of the indices kept
IsKeepNode(idx) == {idx[i] : i \in DOMAIN idx}

\* Lines 146-147: the kept indices numbered in order, 0 elsewhere
IdxMap(NB, keep) ==
    [i \in 0..(NB - 1) |->
        IF i \in keep THEN Cardinality({k \in keep : k < i}) ELSE 0]

\* Lines 127 and 140-149: what voronoi_mesh returns besides the coordinates
MergeNearSites(H, near) ==
    LET idx == MergeIdx(H, near)
        keep == IsKeepNode(idx)
        idxmap == IdxMap(len(H), keep)
    IN  [ended |-> "returned",
         keep  |-> keep,
         map   |-> [i \in DOMAIN H |-> idxmap[idx[i]]]]

\* the sets of rows tried as flagged: up to MaxNear rows, or the rows of
\* one region (the unit square at n = 0 flags the four rows of region 1)
NearSites(H) ==
    SubsetsUpTo(DOMAIN H, MaxNear)
        \cup {{h \in DOMAIN H : H[h].region = r} : r \in Regions(H)}

\* self.voronoi_mesh(n, c, theta)
VoronoiMesh(n) ==
    /\ argh = <<>>
    /\ ret = <<>>
    /\ NE * Pow2(n) <= MaxNE
    /\ UniformShapesFit(halfedge, NE)
    /\ LET D == UniformInPlace(Self, n)
       IN  /\ vertices' = D.vertices
           /\ halfedge' = D.halfedge
           /\ fixed' = D.fixed
           /\ NV' = D.NV
           /\ NE' = D.NE
           /\ \E near \in NearSites(D.halfedge),
                 corner \in SubsetsUpTo(FixedRows(D.halfedge, D.fixed), 1) :
                 /\ call' = [op |-> "voronoi_mesh", n |-> n, mark |-> near]
                 /\ ret' = IF CornerIndexFits(D.halfedge, D.fixed, corner)
                           THEN MergeNearSites(D.halfedge, near)
                           ELSE [ended |-> "IndexError"]
    /\ UNCHANGED <<NS, argv, argh>>
    /\ UNCHANGED <<segmentVars, arrayVars, clip, finiteVars>>

NextMerge == \E n \in 0..MaxLevels : VoronoiMesh(n)

SpecMerge == Init /\ [][NextMerge]_vars

----------------------------------------------------------------------------
\* boundary_adaptive_refine(isMarkedHEdge, edgecenter=...) in place, with the
\* new vertices averaged (edgecenter=None) or given by the caller.

\* The points a caller passes as edgecenter, in the order passed: none of
\* them is the midpoint of an edge of the domains tried.
GivenPoints == <<Pt(3, 3), Pt(5, 7), Pt(7, 5), Pt(9, 9)>>

\* edgecenter: None, or an array of up to MaxCenters points
EdgeCenters ==
    {None} \cup
    { [given |-> TRUE, points |-> [k \in 0..(m - 1) |-> GivenPoints[k + 1]]] :
        m \in 0..MaxCenters }

\* Mutant of AdaptiveInPlaceAt: the new vertices are averaged whatever the
\* caller passed.
AdaptiveInPlaceAveraged(D, mark, edgecenter) ==
    LET marked == Symmetrize(D.halfedge, mark)
        ec     == EdgeCenter(D.vertices, D.halfedge, marked, None)
        S      == AdaptiveSplice(D.halfedge, D.NV, D.NE, marked, ec)
        NE1    == 2 * len(ec)
    IN  [vertices |-> Concat(D.vertices, ec),
         halfedge |-> S.halfedge,
         fixed    |-> Concat(D.fixed, ZerosLike(ec)),
         NV       |-> D.NV + NE1 \div 2,
         NE       |-> D.NE + NE1]

\* The in-place branch of boundary_adaptive_refine on the domain D with the
\* rows of mark set in isMarkedHEdge and the given edgecenter.
AdaptiveInPlaceAt(D, mark, edgecenter) ==
    LET marked == Symmetrize(D.halfedge, mark)
        ec     == EdgeCenter(D.vertices, D.halfedge, marked, edgecenter)
        S      == AdaptiveSplice(D.halfedge, D.NV, D.NE, marked, ec)
        NE1    == 2 * len(ec)
    IN  [vertices |-> Concat(D.vertices, ec),
         halfedge |-> S.halfedge,
         fixed    |-> Concat(D.fixed, ZerosLike(ec)),
         NV       |-> D.NV + NE1 \div 2,
         NE       |-> D.NE + NE1]

\* Mutant of RefineRaises: the call gives up with the table already rewired
\* (the state line 205 leaves).
RefineRaisesLate(D, marked) ==
    /\ vertices' = D.vertices
    /\ halfedge' = [i \in DOMAIN D.halfedge |->
                       IF i \in marked
                       THEN [D.halfedge[i] EXCEPT !.prev = D.NE]
                       ELSE D.halfedge[i]]
    /\ UNCHANGED <<fixed, NV, NE>>

\* Line 198, halfedge1[flag1, 0] = ...: a mask of another length than
\* halfedge1 raises IndexError, before any line has written to the domain.
RefineRaises(D, marked) ==
    UNCHANGED <<vertices, halfedge, fixed, NV, NE>>

\* self.boundary_adaptive_refine(isMarkedHEdge, edgecenter=edgecenter)
BoundaryAdaptiveRefineAt(mark, edgecenter) ==
    LET marked == Symmetrize(halfedge, mark)
        ec     == EdgeCenter(vertices, halfedge, marked, edgecenter)
    IN  /\ argh = <<>>
        /\ ret = <<>>
        /\ NE + Cardinality(marked) <= MaxGivenNE
        /\ IF AdaptiveShapesFit(halfedge, marked, ec)
           THEN LET D == AdaptiveInPlaceAt(Self, mark, edgecenter)
                IN  /\ vertices' = D.vertices
                    /\ halfedge' = D.halfedge
                    /\ fixed' = D.fixed
                    /\ NV' = D.NV
                    /\ NE' = D.NE
                    /\ call' = [op |-> "adaptive", n |-> 0, mark |-> mark,
                                edgecenter |-> edgecenter,
                                ended |-> "returned"]
           ELSE /\ RefineRaises(Self, marked)
                /\ call' = [op |-> "adaptive", n |-> 0, mark |-> mark,
                            edgecenter |-> edgecenter,
                            ended |-> "IndexError"]
        /\ UNCHANGED <<NS, argv, argh, ret>>
        /\ UNCHANGED <<segmentVars, arrayVars, clip, finiteVars>>

\* The markings tried with an edgecenter: up to MaxMark edges named by
\* their main half-edge, or one edge named by its other half-edge (line 185
\* marks the twins in either case).
GivenMarkings(H) ==
    SubsetsUpTo(IsMainHEdge(H), MaxMark)
        \cup {{h} : h \in DOMAIN H \ IsMainHEdge(H)}

NextGiven ==
    \E mark \in GivenMarkings(halfedge), edgecenter \in EdgeCenters :
        BoundaryAdaptiveRefineAt(mark, edgecenter)

SpecGiven == Init /\ [][NextGiven]_vars

----------------------------------------------------------------------------
\* Properties.

\* the step just taken was an in-place refinement call
InPlaceStep == call'.op \in {"uniform", "adaptive"}

\* rows of the table that the last call added (NE is the count before it)
NewRows == DOMAIN halfedge' \ DOMAIN halfedge

InRange(H, h) ==
    /\ H[h].twin \in DOMAIN H
    /\ H[h].next \in DOMAIN H
    /\ H[h].prev \in DOMAIN H

\* C1: in every state reached by in-place uniform and adaptive refinements
\* of a valid domain, every half-edge h of the table, old or new, satisfies
\* twin(twin(h)) = h, next(prev(h)) = h and prev(next(h)) = h.
C1_TwinNextPrev ==
    \A h \in DOMAIN halfedge :
        /\ InRange(halfedge, h)
        /\ halfedge[halfedge[h].twin].twin = h
        /\ halfedge[halfedge[h].prev].next = h
        /\ halfedge[halfedge[h].next].prev = h

\* C1 witness: an adaptive call has split an edge of a table that earlier
\* calls had already refined.
C1_Witness ==
    /\ call.op = "adaptive"
    /\ call.mark # {}
    /\ NE = 12
    /\ NV = 6
    /\ C1_TwinNextPrev

\* C2: in every state reached by in-place refinements, exactly one of the two
\* half-edges of every undirected edge {h, twin(h)} is the main one.
C2_OnePrimary ==
    \A h \in DOMAIN halfedge :
        /\ halfedge[h].twin \in DOMAIN halfedge
        /\ halfedge[h].primary + halfedge[halfedge[h].twin].primary = 1

\* C2 witness: a uniform pass over a table in which the main half-edges are
\* not the first half of the rows has doubled it.
C2_Witness ==
    /\ call.op = "uniform"
    /\ call.n >= 1
    /\ NE = 16
    /\ halfedge[0].primary = 0
    /\ C2_OnePrimary

\* The row of the old table (rows below ne) that row j of the new table H
\* descends from: a row made by a pass precedes, in the new table, the row
\* it was split from.  Followed for at most fuel steps.
RECURSIVE Origin(_, _, _, _)
Origin(H, j, ne, fuel) ==
    IF j < ne \/ fuel = 0 \/ H[j].next \notin DOMAIN H THEN j
    ELSE Origin(H, H[j].next, ne, fuel - 1)

\* C3: an in-place refinement call, uniform or adaptive, leaves the region id
\* of every existing half-edge as it was, gives every new half-edge the
\* region id of the half-edge it was split from, and leaves the set of
\* region ids in the table and the count NS unchanged.
C3_RegionStable ==
    [][InPlaceStep =>
        /\ \A h \in DOMAIN halfedge : halfedge'[h].region = halfedge[h].region
        /\ \A j \in NewRows :
              /\ Origin(halfedge', j, NE, len(halfedge')) \in DOMAIN halfedge
              /\ halfedge'[j].region =
                     halfedge[Origin(halfedge', j, NE, len(halfedge'))].region
        /\ Regions(halfedge') = Regions(halfedge)
        /\ NS' = NS]_vars

\* C3 witness: an adaptive call has split one edge of a table whose two
\* sides carry the region ids 1 and 2.
C3_Witness ==
    /\ call.op = "adaptive"
    /\ Cardinality(call.mark) = 1
    /\ NE = 10
    /\ Regions(halfedge) = {1, 2}
    /\ NS = 2

\* C4: an in-place boundary_uniform_refine(n) on a table of E0 rows and V0
\* vertices ends with E0 * 2^n rows and V0 + (E0/2) * (2^n - 1) vertices,
\* in the arrays and in the counts NE and NV.
C4_UniformCounts ==
    [][call'.op = "uniform" =>
        /\ len(halfedge') = NE * Pow2(call'.n)
        /\ NE' = NE * Pow2(call'.n)
        /\ len(vertices') = NV + (NE \div 2) * (Pow2(call'.n) - 1)
        /\ NV' = NV + (NE \div 2) * (Pow2(call'.n) - 1)]_vars

\* C4 witness: two levels in one call, from the lens of 4 rows and 2
\* vertices to 16 rows and 2 + 2 * 3 = 8 vertices.
C4_Witness ==
    /\ call.op = "uniform"
    /\ call.n = 2
    /\ NE = 16
    /\ NV = 8
    /\ len(halfedge) = 16
    /\ len(vertices) = 8

\* m = (a + b)/2 on one coordinate, by cross-multiplication
IsHalfSum(m, a, b) == 2 * m[1] * a[2] * b[2] = (a[1] * b[2] + b[1] * a[2]) * m[2]

\* the point m is the midpoint of the points p and q
IsMidpoint(m, p, q) == IsHalfSum(m[1], p[1], q[1]) /\ IsHalfSum(m[2], p[2], q[2])

\* C5: one uniform pass makes one new vertex per undirected edge, the new ids
\* being NV, NV+1, ... without gap, each at the midpoint of the end points of
\* its edge (the unit square's edge (0,0)-(1,0) gives (1/2, 0)); the new
\* half-edge made from a main half-edge and the one made from its twin point
\* to the same new vertex, and half-edges of different edges never do.
C5_UniformMidpoints ==
    [][(call'.op = "uniform" /\ call'.n = 1) =>
        LET made(h) == halfedge'[h].prev
            vnew(h) == halfedge'[made(h)].target
            ends(h) == {vertices[halfedge[h].target],
                        vertices[halfedge[halfedge[h].twin].target]}
        IN  /\ \A h \in DOMAIN halfedge : made(h) \in NewRows
            /\ {vnew(h) : h \in IsMainHEdge(halfedge)} = NV..(NV + NE \div 2 - 1)
            /\ DOMAIN vertices' = 0..(NV + NE \div 2 - 1)
            /\ \A h \in DOMAIN halfedge :
                  /\ vnew(h) = vnew(halfedge[h].twin)
                  /\ IsMidpoint(vertices'[vnew(h)],
                                vertices[halfedge[h].target],
                                vertices[halfedge[halfedge[h].twin].target])
                  /\ ends(h) = {Pt(0, 0), Pt(1, 0)} =>
                         vertices'[vnew(h)] = <<<<1, 2>>, <<0, 1>>>>
            /\ \A h1, h2 \in DOMAIN halfedge :
                  vnew(h1) = vnew(h2) => h2 \in {h1, halfedge[h1].twin}]_vars

\* C5 witness: the unit square after one uniform pass: 16 rows, 4 new
\* vertices, one of them (1/2, 0), on a table numbered so that the twins of
\* the main rows are not in increasing order.
C5_Witness ==
    /\ call.op = "uniform"
    /\ call.n = 1
    /\ NE = 16
    /\ NV = 8
    /\ \A i \in 0..3 : vertices[i] = SquareVertices[i]
    /\ \E v \in 4..7 : vertices[v] = <<<<1, 2>>, <<0, 1>>>>
    /\ \E h, g \in 8..15 :
          /\ halfedge[h].primary = 1
          /\ halfedge[g].primary = 1
          /\ h < g
          /\ halfedge[h].twin > halfedge[g].twin

\* C6: for any marking given to an in-place boundary_adaptive_refine, an
\* undirected edge is split exactly if one of its two half-edges is marked,
\* and then both its half-edges are split; the table grows by two rows and
\* the vertex array by one vertex per such edge; the half-edges of the other
\* edges keep their twins.
C6_AdaptiveMarking ==
    [][call'.op = "adaptive" =>
        LET hit(h)   == h \in call'.mark \/ halfedge[h].twin \in call'.mark
            split(h) == halfedge'[h].prev \in NewRows
            nedges   == Cardinality({h \in IsMainHEdge(halfedge) : hit(h)})
        IN  /\ \A h \in DOMAIN halfedge :
                  /\ split(h) <=> hit(h)
                  /\ split(h) <=> split(halfedge[h].twin)
                  /\ split(h) => halfedge'[h].twin \in NewRows
                  /\ ~hit(h) => /\ halfedge'[h].twin = halfedge[h].twin
                                /\ halfedge'[h].prev = halfedge[h].prev
            /\ len(halfedge') = NE + 2 * nedges
            /\ NE' = NE + 2 * nedges
            /\ len(vertices') = NV + nedges
            /\ NV' = NV + nedges]_vars

\* the twin that the split half-edge h had before it was split: the row made
\* from h keeps it
TwinBefore(h) == halfedge[halfedge[h].prev].twin

\* C6 witness: an adaptive call whose marking held one half-edge of each of
\* two edges, and not their twins, has left a table of 12 rows.
C6_Witness ==
    /\ call.op = "adaptive"
    /\ Cardinality(call.mark) = 2
    /\ NE = 12
    /\ \A h \in call.mark :
          /\ halfedge[h].prev >= NE - 4
          /\ TwinBefore(h) \notin call.mark

\* C7: an in-place boundary_adaptive_refine with every half-edge marked and
\* no edgecenter leaves the vertex array, the half-edge table, the fixed
\* flags and the counts that boundary_uniform_refine(1) leaves on the same
\* domain.
C7_AllMarkedIsUniform ==
    [][(call'.op = "adaptive" /\ call'.mark = DOMAIN halfedge) =>
        LET U == UniformInPlace(Self, 1)
        IN  /\ vertices' = U.vertices
            /\ halfedge' = U.halfedge
            /\ fixed' = U.fixed
            /\ NV' = U.NV
            /\ NE' = U.NE]_vars

\* C7 witness: the unit square, numbered so that the main rows lie among
\* the others, after an adaptive call with all 8 rows marked.
C7_Witness ==
    /\ call.op = "adaptive"
    /\ call.mark = 0..7
    /\ NE = 16
    /\ NV = 8
    /\ halfedge[0].primary = 1
    /\ halfedge[1].primary = 0
    /\ halfedge[2].primary = 0
    /\ halfedge[3].primary = 1

\* C8: an in-place refinement call only appends: every vertex there was keeps
\* its index, coordinates and fixed flag, every half-edge there was keeps its
\* index, target vertex and main flag, and no count decreases.
C8_AppendOnly ==
    [][InPlaceStep =>
        /\ \A v \in DOMAIN vertices :
              /\ v \in DOMAIN vertices'
              /\ vertices'[v] = vertices[v]
              /\ v \in DOMAIN fixed'
              /\ fixed'[v] = fixed[v]
        /\ \A h \in DOMAIN halfedge :
              /\ h \in DOMAIN halfedge'
              /\ halfedge'[h].target = halfedge[h].target
              /\ halfedge'[h].primary = halfedge[h].primary
        /\ NV' >= NV
        /\ NE' >= NE
        /\ len(vertices') >= len(vertices)
        /\ len(halfedge') >= len(halfedge)]_vars

\* C8 witness: the triangle after refinement calls, its three corners where
\* they were and fixed, with vertices appended after them.
C8_Witness ==
    /\ call.op \in {"uniform", "adaptive"}
    /\ NV > 3
    /\ NE > 6
    /\ \A i \in 0..2 : vertices[i] = TriangleVertices[i] /\ fixed[i]

\* the counts and the fixed flags agree with the arrays
CountsInSync ==
    /\ NV = len(vertices)
    /\ NE = len(halfedge)
    /\ DOMAIN fixed = DOMAIN vertices
    /\ DOMAIN vertices = 0..(NV - 1)
    /\ DOMAIN halfedge = 0..(NE - 1)

\* C9: after construction and after every in-place refinement call, NV is
\* the number of vertices held, NE the number of rows of the table and the
\* fixed array has NV entries; every vertex a refinement call adds has its
\* flag false.
C9_CountsInSync ==
    /\ []CountsInSync
    /\ [][InPlaceStep =>
            \A v \in DOMAIN vertices' \ DOMAIN vertices :
                v \in DOMAIN fixed' /\ fixed'[v] = FALSE]_vars

\* C9 witness: the square built with fixed = (T, F, T, F), after an adaptive
\* call that split two of its edges: 6 vertices, 12 rows, 6 flags, the last
\* two of them false.
C9_Witness ==
    /\ call.op = "adaptive"
    /\ NV = 6
    /\ NE = 12
    /\ CountsInSync
    /\ \A i \in 0..3 : vertices[i] = SquareVertices[i]
    /\ fixed[0] /\ ~fixed[1] /\ fixed[2] /\ ~fixed[3]
    /\ ~fixed[4]
    /\ ~fixed[5]

\* C10: a call of boundary_uniform_refine or boundary_adaptive_refine in
\* functional mode changes nothing: the domain's vertex array, half-edge
\* table, fixed flags, NV and NE, and the vertex and half-edge arrays the
\* caller passed in, hold after the call what they held before it.
C10_FunctionalCallsMutateNothing ==
    [][call'.op \in {"uniform_f", "adaptive_f"} =>
        /\ UNCHANGED <<vertices, halfedge, fixed, NV, NE>>
        /\ argv' = argv
        /\ argh' = argh]_vars

\* C11: a functional call boundary_uniform_refine(n, vertices, halfedge)
\* returns a pair whose half-edge table has len(halfedge) * 2^n rows and is
\* the table n in-place levels produce on a domain holding the same arrays.
C11_FunctionalRunsAllLevels ==
    [][call'.op = "uniform_f" =>
        LET D == UniformInPlace([vertices |-> argv, halfedge |-> argh,
                                 fixed |-> [i \in DOMAIN argv |-> FALSE],
                                 NV |-> len(argv), NE |-> len(argh)],
                                call'.n)
        IN  /\ Len(ret') = 2
            /\ len(ret'[2]) = len(argh) * Pow2(call'.n)
            /\ ret'[2] = D.halfedge]_vars

\* the direction cross product of the pair of segments passed to is_intersect
SegC0 == Cross(Minus(segs.v1[0], segs.v0[0]), Minus(segs.p1[0], segs.p0[0]))

\* The parameters of the point where the lines through two non-parallel
\* segments meet: p0 + lambda (p1 - p0) = v0 + mu (v1 - v0), as quotients.
SegLambda ==
    <<Cross(Minus(segs.v0[0], segs.p0[0]), Minus(segs.v1[0], segs.v0[0])),
      Cross(Minus(segs.p1[0], segs.p0[0]), Minus(segs.v1[0], segs.v0[0]))>>

SegMu ==
    <<Cross(Minus(segs.v0[0], segs.p0[0]), Minus(segs.p1[0], segs.p0[0])),
      Cross(Minus(segs.p1[0], segs.p0[0]), Minus(segs.v1[0], segs.v0[0]))>>

\* the two closed segments share a point
SharePoint == InUnit(SegLambda) /\ InUnit(SegMu)

\* x is the coordinate c + lambda d
IsAt(x, c, d) == x[1] * SegLambda[2] = (c * SegLambda[2] + d * SegLambda[1]) * x[2]

\* C12: for two segments that are not parallel, is_intersect returns, its
\* answer is true exactly when the two closed segments share a point, and
\* with returnin=True the point returned for a crossing is the common point;
\* the diagonals (0,0)-(1,1) and (0,1)-(1,0) are a crossing at (1/2, 1/2).
C12_CrossingDetected ==
    (isret # <<>> /\ SegC0 # 0) =>
        /\ isret.ended = "returned"
        /\ isret.isIntersect[0] <=> SharePoint
        /\ (segs.returnin /\ SharePoint) =>
              /\ IsAt(isret.point[0][1], segs.p0[0][1],
                      segs.p1[0][1] - segs.p0[0][1])
              /\ IsAt(isret.point[0][2], segs.p0[0][2],
                      segs.p1[0][2] - segs.p0[0][2])

\* C13: for two segments whose direction cross product is zero (parallel or
\* colinear, overlapping or not), is_intersect returns and its answer is
\* false: no crossing is reported and the call does not fail.
C13_ParallelNoCrossing ==
    (isret # <<>> /\ SegC0 = 0) =>
        /\ isret.ended = "returned"
        /\ ~isret.isIntersect[0]

\* C14: increase_size(s) and extend(values) leave the capacity at
\* max(2 * old capacity, required size) if the required size exceeds the old
\* capacity; if it does not (equality included), the capacity is the old one
\* and self.data is still the same array.
C14_GrowsOnlyBeyondCapacity ==
    [][dacall'.op \in {"increase_size", "extend"} =>
        LET required == size + dacall'.s
        IN  IF required > capacity
            THEN capacity' = Max(2 * capacity, required)
            ELSE capacity' = capacity /\ data' = data]_vars

\* C15: the array increase_size(s) returns is the slice [old size,
\* old size + s) of the array self.data refers to after the call.  A write
\* through the array the caller holds lands in the cell of self.data at the
\* same index, and is read back by buffer indexing where the index is below
\* size, as long as no resize was called since the array was returned; once
\* a resize was called, such a write changes no cell of self.data.
C15_ViewAliasesUntilResize ==
    [][/\ dacall'.op = "increase_size" =>
            view' = [base |-> data', lo |-> size, hi |-> size + dacall'.s,
                     resized |-> FALSE]
       /\ dacall'.op = "write" =>
            LET i == view.lo + dacall'.s
            IN  IF view.resized
                THEN cells' = cells
                ELSE /\ view.base = data
                     /\ i \in DOMAIN cells
                     /\ cells' = [cells EXCEPT ![i] = dacall'.x]
                     /\ i < size => GetItem(cells', size', i) = <<dacall'.x>>]_vars

\* C15 witness: a write through an array returned before a resize, at an
\* index the buffer still has, has left the buffer's cell with another value.
C15_Witness ==
    /\ dacall.op = "write"
    /\ view.resized
    /\ view.lo + dacall.s < size
    /\ GetItem(cells, size, view.lo + dacall.s) # <<dacall.x>>

\* C16: decrease_size(s) with s <= size returns, leaves the size smaller by
\* s, the capacity, self.data and its cells as they were, and returns the
\* slice holding, in order, the s trailing elements the buffer had, which
\* buffer indexing no longer reaches; with s > size it raises
\* AssertionError and size, capacity, self.data and its cells are as before.
C16_DecreaseSize ==
    [][dacall'.op = "decrease_size" =>
        LET s == dacall'.s
        IN  IF s <= size
            THEN /\ dacall'.ended = "returned"
                 /\ size' = size - s
                 /\ capacity' = capacity
                 /\ data' = data
                 /\ cells' = cells
                 /\ view'.base = data'
                 /\ view'.hi - view'.lo = s
                 /\ \A k \in 0..(s - 1) :
                       /\ <<cells'[view'.lo + k]>> = GetItem(cells, size, size - s + k)
                       /\ GetItem(cells', size', size - s + k) = IndexError
            ELSE /\ dacall'.ended = "AssertionError"
                 /\ UNCHANGED <<size, capacity, data, cells>>]_vars

\* C16 witness: decrease_size(2) has taken the two trailing elements 0, 1 off
\* a buffer of three, and the array returned holds them.
C16_Witness ==
    /\ dacall.op = "decrease_size"
    /\ dacall.s = 2
    /\ dacall.ended = "returned"
    /\ size = 1
    /\ view.base = data /\ view.lo = 1 /\ view.hi = 3
    /\ cells[1] = 0 /\ cells[2] = 1

\* C17: in every state 0 <= size <= capacity, and shrink() leaves the
\* capacity equal to the size.
C17_SizeWithinCapacity ==
    /\ [](0 <= size /\ size <= capacity)
    /\ [][dacall'.op = "shrink" => capacity' = size' /\ size' = size]_vars

\* C17 witness: shrink() has cut a capacity of three down to a size of two.
C17_Witness ==
    /\ dacall.op = "shrink"
    /\ size = 2
    /\ capacity = 2
    /\ view.resized /\ view.hi = 3

\* the closed segments p0-p1 and v0-v1 are not parallel and share a point
Crosses(p0, p1, v0, v1) ==
    LET s   == Minus(p1, p0)
        r   == Minus(v1, v0)
        w   == Minus(v0, p0)
        den == Cross(s, r)
    IN  /\ den # 0
        /\ InUnit(<<Cross(w, r), den>>)
        /\ InUnit(<<Cross(w, s), den>>)

\* The main edges of the table of the call whose end points have different
\* nearest generators that either share no ridge or share one that does not
\* cross the edge.
Unresolved ==
    LET E == MainEdges(clip)
    IN  {k \in 0..(E.n - 1) :
            /\ clip.gindex[E.e0[k]] # clip.gindex[E.e1[k]]
            /\ ~(/\ E.d0[k] > 0
                 /\ Crosses(Flat(vertices[E.e0[k]]), Flat(vertices[E.e1[k]]),
                            At(RidgeEnds, E.d0[k] - 1), At(RidgeEnds, E.d1[k] - 1)))}

RemappedInto(K) ==
    LET mesh == ret'[3]
    IN  /\ DOMAIN mesh = DOMAIN halfedge
        /\ \A i \in DOMAIN mesh : mesh[i].region \in 0..(K - 1)
        /\ \A i, k \in DOMAIN mesh :
              (mesh[i].region = mesh[k].region)
                  <=> (halfedge[i].region = halfedge[k].region)
        /\ vertices' = vertices
        /\ halfedge' = halfedge

\* C20 as stated: to_halfedgemesh hands over a table whose region ids are
\* remapped into 0..NS-1, NS the domain's subdomain count, two rows having
\* the same new id exactly when they had the same region id, and leaves the
\* domain's vertex array and table unmodified.
C20_RemappedIntoNS ==
    [][call'.op = "to_halfedgemesh" => RemappedInto(NS)]_vars

\* C20, amended: the region ids are remapped into 0..K-1, K the number of
\* distinct region ids in the table (which is NS when the constructor
\* counted NS itself, and need not be when NS was passed to it); two rows
\* have the same new id exactly when they had the same region id, and the
\* domain's vertex array and table are unmodified.
C20_RemappedDense ==
    [][call'.op = "to_halfedgemesh" =>
        /\ RemappedInto(Cardinality(Regions(halfedge)))
        /\ {ret'[3][i].region : i \in DOMAIN halfedge}
               = 0..(Cardinality(Regions(halfedge)) - 1)]_vars

\* C20 witness: the triangle whose sides carry the region ids -1 and 1 has
\* been handed over after one refinement with the ids 0 and 1 instead.
C20_Witness ==
    /\ call.op = "to_halfedgemesh"
    /\ NE = 12
    /\ Regions(halfedge) = {-1, 1}
    /\ \A i \in DOMAIN halfedge :
          ret[3][i].region = IF halfedge[i].region = -1 THEN 0 ELSE 1

\* create_finite_voronoi has returned
Emitted == finite # <<>> /\ finite.ended = "returned"

\* the unbounded ridges of the diagram handed to create_finite_voronoi
Unbounded == {i \in DOMAIN voronoi.rv : Col0(voronoi.rv[i]) = -1}

\* C21: the table create_finite_voronoi emits for a diagram of ne ridges, nn
\* of them unbounded, has 2*ne + 2*nn rows; the twin of the twin of every
\* row is the row; of a row and its twin exactly one is primary; and the
\* rows of the synthetic region id NG are nn rows, the twins of the primary
\* rows that end at the nn far vertices on the side of a generator.
C21_TableShape ==
    Emitted =>
        LET H == finite.halfedge
            ne == len(voronoi.rv)
            nn == Cardinality(Unbounded)
            NG == voronoi.NG
            outer == {h \in DOMAIN H : H[h].region = NG}
        IN  /\ len(H) = 2 * ne + 2 * nn
            /\ \A h \in DOMAIN H :
                  /\ H[h].twin \in DOMAIN H
                  /\ H[H[h].twin].twin = h
                  /\ (H[h].primary = 1) # (H[H[h].twin].primary = 1)
            /\ Cardinality(outer) = nn
            /\ \A h \in outer :
                  /\ H[h].primary = 0
                  /\ H[H[h].twin].region \in 0..(NG - 1)
                  /\ H[H[h].twin].target >= voronoi.nv
                  /\ H[h].target >= voronoi.nv

\* C21 witness: a table has been emitted for the diagram of three generators
\* around a fourth, 6 ridges of which 3 are unbounded: 18 rows, 3 of them
\* with the region id 4.
C21_Witness ==
    /\ Emitted
    /\ voronoi.nv = 3
    /\ len(finite.halfedge) = 18
    /\ Cardinality({h \in DOMAIN finite.halfedge :
                       finite.halfedge[h].region = 4}) = 3

\* every node of the table is the target of exactly 3 rows
Generic(H, NN) ==
    \A v \in 0..(NN - 1) :
        Cardinality({h \in DOMAIN H : H[h].target = v}) = 3

\* C22: in the table emitted for a generic diagram, for every row h the row
\* next(h) has the region id of h and starts at the vertex h points to:
\* target(twin(next(h))) = target(h).
C22_NextWalksRegion ==
    (Emitted /\ Generic(finite.halfedge, finite.NN)) =>
        LET H == finite.halfedge
        IN  \A h \in DOMAIN H :
                /\ H[h].next \in DOMAIN H
                /\ H[H[h].next].region = H[h].region
                /\ H[H[H[h].next].twin].target = H[h].target

\* voronoi_mesh has returned its index map
Merged == ret # <<>> /\ call.op = "voronoi_mesh" /\ ret.ended = "returned"

\* C23: in the index map returned by voronoi_mesh, for every half-edge h
\* flagged as near-duplicate the point generated by h and the point
\* generated by next(h) map to the same kept node; every entry of the map
\* lies in 0..K-1, K the number of kept nodes, and every index of 0..K-1 is
\* the image of some generated point.
C23_NearPairsMerged ==
    Merged =>
        LET K == Cardinality(ret.keep)
        IN  /\ \A h \in call.mark : ret.map[h] = ret.map[halfedge[h].next]
            /\ \A i \in DOMAIN ret.map : ret.map[i] \in 0..(K - 1)
            /\ \A k \in 0..(K - 1) : \E i \in DOMAIN ret.map : ret.map[i] = k

\* the step just taken was one in-place pass of boundary_uniform_refine
OneUniformPass == call'.op = "uniform" /\ call'.n = 1

\* C24 as stated: in one uniform pass every original half-edge h gets a new
\* half-edge h' that is its successor: h' has h's region, next(h) = h',
\* next(h') is the old next(h), the target of h is a new midpoint vertex
\* and prev(h) = h'.
C24_NewRowIsSuccessor ==
    [][OneUniformPass =>
        \A h \in DOMAIN halfedge :
            \E hp \in NewRows :
                /\ halfedge'[hp].region = halfedge[h].region
                /\ halfedge'[h].next = hp
                /\ halfedge'[hp].next = halfedge[h].next
                /\ halfedge'[h].target \in DOMAIN vertices' \ DOMAIN vertices
                /\ halfedge'[h].prev = hp]_vars

\* C24 amended: in one uniform pass every original half-edge h gets the new
\* half-edge h' = NE + h as its predecessor: h' has h's region and the old
\* prev(h), whose next becomes h'; the target of h' is the new vertex at the
\* midpoint of h's edge and next(h') = h; h keeps its target, prev(h) = h'
\* and next(h) is the new half-edge of the old next(h).
C24_NewRowIsPredecessor ==
    [][OneUniformPass =>
        \A h \in DOMAIN halfedge :
            LET hp == NE + h
                p  == halfedge[h].prev
                m  == halfedge'[hp].target
            IN  /\ hp \in NewRows
                /\ halfedge'[hp].region = halfedge[h].region
                /\ halfedge'[hp].prev = p
                /\ halfedge'[p].next = hp
                /\ halfedge'[hp].next = h
                /\ halfedge'[h].prev = hp
                /\ halfedge'[h].target = halfedge[h].target
                /\ halfedge'[h].next = NE + halfedge[h].next
                /\ m \in DOMAIN vertices' \ DOMAIN vertices
                /\ IsMidpoint(vertices'[m],
                              vertices[halfedge[h].target],
                              vertices[halfedge[halfedge[h].twin].target])]_vars

\* C24 witness: one uniform pass has split the four edges of the square
\* whose row 0 runs from vertex 0 to vertex 1: row 8 made from row 0 ends at
\* the new vertex 4 and is followed by row 0, which still ends at vertex 1.
C24_Witness ==
    /\ call.op = "uniform"
    /\ call.n = 1
    /\ NE = 16
    /\ halfedge[0].prev = 8
    /\ halfedge[8].next = 0
    /\ halfedge[8].target = 4
    /\ halfedge[0].target = 1
    /\ vertices[4] = <<<<1, 2>>, <<0, 1>>>>

\* the undirected edges that a marking names
MarkedEdges(H, mark) == {{h, H[h].twin} : h \in mark}

\* the vertex that splits the marked half-edge h: the target of the row
\* the call made from h, which precedes h in the new table
SplitVertex(h) == halfedge'[halfedge'[h].prev].target

\* C25: an in-place boundary_adaptive_refine call given explicit midpoints,
\* one per marked undirected edge, makes the k-th point given the position,
\* unchanged, of the new vertex NV + k that splits the k-th marked primary
\* half-edge in index order; a call without explicit midpoints puts every
\* new vertex at the average of the end points of its edge.
C25_GivenMidpointsUsed ==
    [][(call'.op = "adaptive" /\ call'.ended = "returned") =>
        LET marked == Symmetrize(halfedge, call'.mark)
            main   == Ascending(IsMainHEdge(halfedge) \cap marked)
        IN  /\ \A i \in DOMAIN vertices : vertices'[i] = vertices[i]
            /\ NV' = NV + Len(main)
            /\ \A k \in 1..Len(main) :
                  /\ SplitVertex(main[k]) = NV + k - 1
                  /\ SplitVertex(halfedge[main[k]].twin) = NV + k - 1
                  /\ IF call'.edgecenter.given
                     THEN vertices'[NV + k - 1] = call'.edgecenter.points[k - 1]
                     ELSE IsMidpoint(vertices'[NV + k - 1],
                              vertices[halfedge[main[k]].target],
                              vertices[halfedge[halfedge[main[k]].twin].target])]_vars

\* C25 witness: a call that marked two edges of the triangle and passed two
\* points has put them, in order, at the vertices 3 and 4.
C25_Witness ==
    /\ call.op = "adaptive"
    /\ call.ended = "returned"
    /\ call.edgecenter.given
    /\ NV = 5
    /\ NE = 10
    /\ vertices[3] = Pt(3, 3)
    /\ vertices[4] = Pt(5, 7)
    /\ \A i \in 0..2 : vertices[i] = TriangleVertices[i]

\* C26: an in-place boundary_adaptive_refine call given explicit midpoints
\* whose count differs from the number of marked undirected edges fails and
\* leaves the domain's vertex array, half-edge table, fixed flags, NV and NE
\* exactly as they were.
C26_WrongCountChangesNothing ==
    [][(/\ call'.op = "adaptive"
        /\ call'.edgecenter.given
        /\ len(call'.edgecenter.points)
               # Cardinality(MarkedEdges(halfedge, call'.mark))) =>
        /\ call'.ended = "IndexError"
        /\ vertices' = vertices
        /\ halfedge' = halfedge
        /\ fixed' = fixed
        /\ NV' = NV
        /\ NE' = NE]_vars

\* C26 witness: a call that marked two edges of the triangle and passed one
\* point has raised.
C26_Witness ==
    /\ call.op = "adaptive"
    /\ call.ended = "IndexError"
    /\ call.edgecenter.given
    /\ len(call.edgecenter.points) = 1
    /\ Cardinality(MarkedEdges(halfedge, call.mark)) = 2
    /\ NE = 6
    /\ NV = 3

\* C27: the domains built satisfy target(prev(h)) = target(twin(h)) for every
\* half-edge h, and so does every table reached from them by in-place
\* uniform and adaptive refinement calls, for old and new rows alike.
C27_PrevEndsWhereTwinEnds ==
    \A h \in DOMAIN halfedge :
        /\ InRange(halfedge, h)
        /\ halfedge[halfedge[h].prev].target = halfedge[halfedge[h].twin].target

\* C27 witness: an adaptive call has split two edges of a square; a row
\* whose predecessor the call made starts at a new vertex, and there its
\* twin ends.
C27_Witness ==
    /\ call.op = "adaptive"
    /\ NE = 12
    /\ NV = 6
    /\ \E h \in DOMAIN halfedge :
          /\ halfedge[h].prev >= 8
          /\ halfedge[halfedge[h].prev].target >= 4
          /\ halfedge[halfedge[h].twin].target >= 4

\* C28: increase_size, extend and shrink leave the values stored at the
\* indices below the old size as they were, also when they replace the
\* backing array; extend(values) moreover stores the values given, in
\* order, from the old size on and grows the size by their number.
C28_OldCellsKept ==
    [][dacall'.op \in {"increase_size", "extend", "shrink"} =>
        /\ \A i \in 0..(size - 1) :
              i \in DOMAIN cells' /\ cells'[i] = cells[i]
        /\ dacall'.op = "extend" =>
              /\ size' = size + Len(dacall'.values)
              /\ \A j \in 1..Len(dacall'.values) :
                    /\ (size + j - 1) \in DOMAIN cells'
                    /\ cells'[size + j - 1] = dacall'.values[j]]_vars

\* C28 witness: extend(<<1, 0>>) has just put 1 and 0 behind one stored
\* value, in a backing array that is not the one the constructor made.
C28_Witness ==
    /\ dacall.op = "extend"
    /\ dacall.values = <<1, 0>>
    /\ size = 3
    /\ cells[1] = 1
    /\ cells[2] = 0
    /\ data # 1

\* C29: after any sequence of increase_size, decrease_size, extend and
\* shrink calls, len(buffer), which is self.shape[0], equals the buffer's
\* size.
C29_LenIsSize == shape[1] = size

====
